---- MODULE Spec2Model ----
(***************************************************************************)
(* A model of the option-string parser of src/src/lib.rs.                  *)
(*                                                                         *)
(* A text is a sequence of code points; a code point is written as a       *)
(* string.  "sz" stands for the two-byte letter of the tests (U+00DF), so  *)
(* that byte offsets and code-point indices differ.  Every rule takes the  *)
(* remaining text and the absolute byte offset and returns either          *)
(* Ok(remaining text, offset, output) or Err(kind, offset, info).          *)
(***************************************************************************)
EXTENDS Integers, Sequences, FiniteSets, TLC

\* ---------------------------------------------------------------- bounds
\* Longest text drawn over the whole alphabet.
MaxLen == 2
\* Longest decoded content of a generated quoted string.
MaxBody == 2
\* Deepest nesting of a generated value.
MaxDepth == 1

\* ------------------------------------------------------------ code points
Letters == {"k", "sz"}
Digits == {"1"}
Chars == Letters \cup Digits \cup
         {"-", "=", "'", "\\", ";", "[", "]", "(", ")", " ", "@"}

is_alphabetic(c) == c \in Letters
is_alphanumeric(c) == c \in Letters \cup Digits
is_whitespace(c) == c = " "
len_utf8(c) == IF c = "sz" THEN 2 ELSE 1

RECURSIVE str_len(_)
\* str::len: the length of a text in bytes.
str_len(text) ==
    IF text = <<>> THEN 0 ELSE len_utf8(Head(text)) + str_len(Tail(text))

\* The byte index char_indices reports for the i-th code point of text.
byte_index(text, i) == str_len(SubSeq(text, 1, i - 1))

\* Iterator::find over char_indices with a negated test: the index of the
\* first code point at or after from that is not in class, 0 when there is none.
find_not_in(text, from, class) ==
    LET S == {i \in from..Len(text) : text[i] \notin class}
    IN  IF S = {} THEN 0 ELSE CHOOSE i \in S : \A j \in S : i <= j

\* str::starts_with
starts_with(text, expected) ==
    /\ Len(expected) <= Len(text)
    /\ SubSeq(text, 1, Len(expected)) = expected

\* ---------------------------------------------------------------- results
Unit == <<>>

Ok(t, p, o) ==
    [ok |-> TRUE, text |-> t, position |-> p, out |-> o,
     kind |-> "Ok", info |-> <<>>]

Err(k, p, i) ==
    [ok |-> FALSE, text |-> <<>>, position |-> p, out |-> <<>>,
     kind |-> k, info |-> i]

StringValue(s) == <<"StringValue", s>>
ListValue(items) == <<"ListValue", items>>
ObjectValue(pairs) == <<"ObjectValue", pairs>>

\* ------------------------------------------------------- lexical primitives
identifier(text, position) ==
    IF text = <<>> THEN Err("PrematureEndOfText", position, <<>>)
    ELSE IF ~is_alphabetic(Head(text))
    THEN Err("IdentifiersFirstCharacterNotAlphabetic", 0, <<>>)
    ELSE
      LET first_ident_char == Head(text)
          ident == {c \in Chars \cup {"_"} :
                       is_alphanumeric(c) \/ c = "-" \/ c = "_"}
          last == find_not_in(text, 2, ident)
      IN  IF last # 0
          THEN Ok(SubSeq(text, last, Len(text)),
                  position + byte_index(text, last),
                  SubSeq(text, 1, last - 1))
          ELSE Ok(Tail(text),
                  position + len_utf8(first_ident_char),
                  <<first_ident_char>>)

skip_white_space(text, position) ==
    LET white == {c \in Chars : is_whitespace(c)}
        first_no_whitespace == find_not_in(text, 1, white)
    IN  IF first_no_whitespace # 0
        THEN Ok(SubSeq(text, first_no_whitespace, Len(text)),
                position + byte_index(text, first_no_whitespace), Unit)
        ELSE Ok(<<>>, position + str_len(text), Unit)

literal(text, position, expected) ==
    IF starts_with(text, expected)
    THEN Ok(SubSeq(text, Len(expected) + 1, Len(text)),
            position + str_len(expected), expected)
    ELSE Err("ExpectedLiteralNotFound", position, expected)

\* A faulty escaped_char: it hands back the backslash instead of the code point
\* that follows it.
escaped_char_keeps_backslash(text, i, position) ==
    IF i > Len(text) THEN Err("PrematureEndOfText", position, <<>>)
    ELSE IF text[i] \in {"'", "\\"} THEN Ok(<<>>, position, "\\")
    ELSE Err("UnknownEscapedSymbol", position, <<text[i]>>)

\* char_indicies.next() is the code point at index i of text.
escaped_char(text, i, position) ==
    IF i > Len(text) THEN Err("PrematureEndOfText", position, <<>>)
    ELSE IF text[i] \in {"'", "\\"} THEN Ok(<<>>, position, text[i])
    ELSE Err("UnknownEscapedSymbol", position, <<text[i]>>)

RECURSIVE string_loop(_, _, _, _, _)
\* The loop of single_quoted_string, its iterator standing before index i.
string_loop(text, position, i, content, err_position) ==
    IF i > Len(text) THEN Err("PrematureEndOfText", err_position, <<>>)
    ELSE IF text[i] = "'"
    THEN Ok(SubSeq(text, i + 1, Len(text)),
            position + byte_index(text, i), content)
    ELSE IF text[i] = "\\"
    THEN LET e == escaped_char(text, i + 1, position + byte_index(text, i))
         IN  IF ~e.ok THEN e
             ELSE string_loop(text, position, i + 2, Append(content, e.out),
                              position + byte_index(text, i))
    ELSE string_loop(text, position, i + 1, Append(content, text[i]),
                     position + byte_index(text, i))

single_quoted_string(text, position) ==
    LET start_quote_output == literal(text, position, <<"'">>)
    IN  IF ~start_quote_output.ok THEN start_quote_output
        ELSE string_loop(start_quote_output.text, start_quote_output.position,
                         1, <<>>, start_quote_output.position)

\* ------------------------------------------------------------ value grammar
\* match r { Ok(output) => OnOk(output), Err(_) => on_err }
match(r, OnOk(_), on_err) == IF r.ok THEN OnOk(r) ELSE on_err

\* The `?` operator: r? followed by Rest, an Err of r being returned as it is.
try(r, Rest(_)) == match(r, Rest, r)

RECURSIVE value(_, _)
RECURSIVE list(_, _)
RECURSIVE list_loop(_, _, _)
RECURSIVE object(_, _)
RECURSIVE key_value_pair(_, _)
RECURSIVE key_value_pairs(_, _)
RECURSIVE key_value_pairs_loop(_, _, _)

key_value_pair(text, position) ==
    try(identifier(text, position), LAMBDA key :
    try(skip_white_space(key.text, key.position), LAMBDA w1 :
    try(literal(w1.text, w1.position, <<"=">>), LAMBDA equals :
    try(skip_white_space(equals.text, equals.position), LAMBDA w2 :
    try(value(w2.text, w2.position), LAMBDA val :
        Ok(val.text, val.position, <<key.out, val.out>>))))))

\* A faulty loop of key_value_pairs: the failure of a pair after a separator
\* is propagated with `?`, as list does with its values.
key_value_pairs_loop_strict(text, position, pairs) ==
    try(skip_white_space(text, position), LAMBDA w1 :
    match(literal(w1.text, w1.position, <<";">>), LAMBDA semicolon :
        try(skip_white_space(semicolon.text, semicolon.position), LAMBDA w2 :
        try(key_value_pair(w2.text, w2.position), LAMBDA a_key_value_pair :
            key_value_pairs_loop(a_key_value_pair.text,
                                 a_key_value_pair.position,
                                 Append(pairs, a_key_value_pair.out)))),
        Ok(text, position, pairs)))

\* The loop of key_value_pairs, entered with the cursor after a parsed pair;
\* text and position are previous_text and previous_position.
key_value_pairs_loop(text, position, pairs) ==
    try(skip_white_space(text, position), LAMBDA w1 :
    match(literal(w1.text, w1.position, <<";">>), LAMBDA semicolon :
        try(skip_white_space(semicolon.text, semicolon.position), LAMBDA w2 :
        match(key_value_pair(w2.text, w2.position), LAMBDA a_key_value_pair :
            key_value_pairs_loop(a_key_value_pair.text,
                                 a_key_value_pair.position,
                                 Append(pairs, a_key_value_pair.out)),
            Ok(semicolon.text, semicolon.position, pairs))),
        Ok(text, position, pairs)))

\* A faulty key_value_pairs: the test for an empty text is missing.
key_value_pairs_no_empty_check(text, position) ==
    try(skip_white_space(text, position), LAMBDA w :
    try(key_value_pair(w.text, w.position), LAMBDA first_key_value_pair :
        key_value_pairs_loop(first_key_value_pair.text,
                             first_key_value_pair.position,
                             <<first_key_value_pair.out>>)))

key_value_pairs(text, position) ==
    try(skip_white_space(text, position), LAMBDA w :
        IF w.text = <<>> THEN Ok(w.text, w.position, <<>>)
        ELSE
          try(key_value_pair(w.text, w.position), LAMBDA first_key_value_pair :
              key_value_pairs_loop(first_key_value_pair.text,
                                   first_key_value_pair.position,
                                   <<first_key_value_pair.out>>)))

object(text, position) ==
    try(literal(text, position, <<"(">>), LAMBDA bracket :
    try(skip_white_space(bracket.text, bracket.position), LAMBDA w1 :
    match(key_value_pairs(w1.text, w1.position), LAMBDA content :
        try(skip_white_space(content.text, content.position), LAMBDA w2 :
        try(literal(w2.text, w2.position, <<")">>), LAMBDA close :
            Ok(close.text, close.position, content.out))),
        try(literal(w1.text, w1.position, <<")">>), LAMBDA close :
            Ok(close.text, close.position, <<>>)))))

\* What follows the loop of list: whitespace and the closing bracket.
list_close(text, position, values) ==
    try(skip_white_space(text, position), LAMBDA w3 :
    try(literal(w3.text, w3.position, <<"]">>), LAMBDA close :
        Ok(close.text, close.position, values)))

\* The loop of list, entered with the cursor after a value; text and position
\* are previous_text and previous_position.
list_loop(text, position, values) ==
    try(skip_white_space(text, position), LAMBDA w1 :
    match(literal(w1.text, w1.position, <<";">>), LAMBDA semicolon :
        try(skip_white_space(semicolon.text, semicolon.position), LAMBDA w2 :
        try(value(w2.text, w2.position), LAMBDA a_value :
            list_loop(a_value.text, a_value.position,
                      Append(values, a_value.out)))),
        list_close(text, position, values)))

list(text, position) ==
    try(literal(text, position, <<"[">>), LAMBDA open :
    try(skip_white_space(open.text, open.position), LAMBDA w1 :
    match(value(w1.text, w1.position), LAMBDA first_value :
        list_loop(first_value.text, first_value.position, <<first_value.out>>),
        try(literal(w1.text, w1.position, <<"]">>), LAMBDA close :
            Ok(close.text, close.position, <<>>)))))

\* A faulty value: when the three alternatives fail, the error of the last one
\* is handed on instead of NoValueFound at the starting offset.
value_leaks(text, position) ==
    match(single_quoted_string(text, position),
          LAMBDA s : Ok(s.text, s.position, StringValue(s.out)),
    match(list(text, position),
          LAMBDA l : Ok(l.text, l.position, ListValue(l.out)),
    try(object(text, position),
          LAMBDA o : Ok(o.text, o.position, ObjectValue(o.out)))))

value(text, position) ==
    match(single_quoted_string(text, position),
          LAMBDA s : Ok(s.text, s.position, StringValue(s.out)),
    match(list(text, position),
          LAMBDA l : Ok(l.text, l.position, ListValue(l.out)),
    match(object(text, position),
          LAMBDA o : Ok(o.text, o.position, ObjectValue(o.out)),
          Err("NoValueFound", position, <<>>))))

\* The entry point drops the offset of the Ok result.
parse_option_string(text) ==
    match(key_value_pairs(text, 0),
          LAMBDA output : Ok(output.text, 0, output.out),
          key_value_pairs(text, 0))

\* ------------------------------------------------------------------ inputs
\* All texts of at most n code points over the set S.
Texts(S, n) == UNION {[1..m -> S] : m \in 0..n}

\* What the caller knows about the text it hands to the first rule:
\*   "raw"     nothing: any text;
\*   "string"  the text is ' encode(tree) followed by ending;
\*   "value"   the text is the value tree written in the style (ws, trailing);
\*   "pairs"   the text is the pair list tree written in the style (ws, trailing),
\*             followed by ending.
Origin(k, t, w, tr, e) ==
    [kind |-> k, tree |-> t, ws |-> w, trailing |-> tr, ending |-> e]

RawOrigin == Origin("raw", <<>>, FALSE, FALSE, <<>>)

RECURSIVE encode(_)
\* A decoded content written with its two escapes.
encode(content) ==
    IF content = <<>> THEN <<>>
    ELSE (IF Head(content) \in {"'", "\\"} THEN <<"\\", Head(content)>>
          ELSE <<Head(content)>>) \o encode(Tail(content))

W(ws) == IF ws THEN <<" ">> ELSE <<>>

RECURSIVE ser_value(_, _, _)
RECURSIVE ser_values(_, _, _)
RECURSIVE ser_pairs(_, _, _)

ser_pair(pair, ws, tr) ==
    pair[1] \o W(ws) \o <<"=">> \o W(ws) \o ser_value(pair[2], ws, tr)

\* pair (ws ';' ws pair)* of a non-empty pair list
ser_pairs(pairs, ws, tr) ==
    IF Len(pairs) = 1 THEN ser_pair(pairs[1], ws, tr)
    ELSE ser_pair(pairs[1], ws, tr) \o W(ws) \o <<";">> \o W(ws)
         \o ser_pairs(Tail(pairs), ws, tr)

\* value (ws ';' ws value)* of a non-empty value list
ser_values(values, ws, tr) ==
    IF Len(values) = 1 THEN ser_value(values[1], ws, tr)
    ELSE ser_value(values[1], ws, tr) \o W(ws) \o <<";">> \o W(ws)
         \o ser_values(Tail(values), ws, tr)

Dangling(ws, tr) == IF tr THEN W(ws) \o <<";">> ELSE <<>>

\* pairs := ws (pair (ws ';' ws pair)* (ws ';')?)?
ser_pair_list(pairs, ws, tr) ==
    W(ws) \o (IF pairs = <<>> THEN <<>>
              ELSE ser_pairs(pairs, ws, tr) \o Dangling(ws, tr))

ser_value(v, ws, tr) ==
    CASE v[1] = "StringValue" -> <<"'">> \o encode(v[2]) \o <<"'">>
      [] v[1] = "ListValue" ->
           <<"[">> \o W(ws)
           \o (IF v[2] = <<>> THEN <<>>
               ELSE ser_values(v[2], ws, tr) \o Dangling(ws, tr))
           \o W(ws) \o <<"]">>
      [] v[1] = "ObjectValue" ->
           <<"(">> \o W(ws)
           \o (IF v[2] = <<>> THEN <<>> ELSE ser_pair_list(v[2], ws, tr))
           \o W(ws) \o <<")">>

Key1 == <<"k">>
Key2 == <<"sz", "1">>
Leaf == StringValue(<<>>)
Values0 ==
    {StringValue(<<>>), StringValue(<<"'">>), ListValue(<<>>), ObjectValue(<<>>)}

RECURSIVE Values(_)
\* The generated values nested at most d deep.
Values(d) ==
    IF d = 0 THEN Values0
    ELSE LET P == Values(d - 1)
         IN  Values0
             \cup {ListValue(<<v>>) : v \in P}
             \cup {ListValue(<<v, Leaf>>) : v \in P}
             \cup {ObjectValue(<< <<Key1, v>> >>) : v \in P}
             \cup {ObjectValue(<< <<Key1, v>>, <<Key2, Leaf>> >>) : v \in P}

PairLists ==
    {<<>>} \cup { << <<Key1, v>> >> : v \in Values(MaxDepth)}
           \cup { << <<Key1, v>>, <<Key2, Leaf>> >> : v \in Values(MaxDepth)}

ContentChars == {"k", "sz", "'", "\\"}
\* What may follow the body of a quoted string: the closing quote and a rest,
\* the end of the input, a lone backslash, or an unknown escape.
Endings ==
    {<<"'">>, <<"'", " ">>, <<"'", ";", "'">>, <<>>, <<"\\">>}
    \cup {<<"\\", x>> : x \in {"k", "sz", "@"}}

\* A first pair and the start of a second one, to be followed by any text.
Prefixes == {<<>>, <<"k", "=">>, <<"k", "=", "'", "'">>}

RawInputs ==
    {[text |-> p \o t, origin |-> RawOrigin] :
        p \in Prefixes, t \in Texts(Chars, MaxLen)}

StringInputs ==
    {[text |-> <<"'">> \o encode(c) \o e,
      origin |-> Origin("string", c, FALSE, FALSE, e)] :
        c \in Texts(ContentChars, MaxBody), e \in Endings}

WrappedStringInputs ==
    {[text |-> <<"k", "=">> \o i.text, origin |-> RawOrigin] : i \in StringInputs}

ValueInputs ==
    {[text |-> ser_value(v, ws, tr), origin |-> Origin("value", v, ws, tr, <<>>)] :
        v \in Values(MaxDepth), ws \in BOOLEAN, tr \in BOOLEAN}

PairsInputs ==
    {[text |-> ser_pair_list(p, ws, tr) \o (IF p = <<>> THEN <<>> ELSE W(ws)),
      origin |-> Origin("pairs", p, ws, tr, IF p = <<>> THEN <<>> ELSE W(ws))] :
        p \in PairLists, ws \in BOOLEAN, tr \in BOOLEAN}

\* ------------------------------------------------------------ state machine
VARIABLES
    text,       \* the text handed to the last rule called
    position,   \* the offset handed to the last rule called
    rule,       \* the last rule called, "none" before the first call
    result,     \* what it returned; before the first call, the cursor itself
    origin      \* what is known about text, while it is the whole input

vars == <<text, position, rule, result, origin>>

Literals == {<<"'">>, <<"=">>, <<";">>, <<"[">>, <<"]">>, <<"(">>, <<")">>}

Init ==
    /\ \E i \in RawInputs \cup WrappedStringInputs \cup StringInputs
                 \cup ValueInputs \cup PairsInputs :
          /\ text = i.text
          /\ origin = i.origin
    /\ position = 0
    /\ rule = "none"
    /\ result = Ok(text, position, Unit)

\* The caller threads the cursor a rule returned into the next rule.
Call(r, res) ==
    /\ result.ok
    /\ rule # "parse_option_string"
    /\ text' = result.text
    /\ position' = result.position
    /\ rule' = r
    /\ result' = res
    /\ origin' = IF rule = "none" THEN origin ELSE RawOrigin

CallSkipWhiteSpace ==
    Call("skip_white_space", skip_white_space(result.text, result.position))

CallLiteral ==
    \E expected \in Literals :
        Call("literal", literal(result.text, result.position, expected))

CallIdentifier ==
    Call("identifier", identifier(result.text, result.position))

CallSingleQuotedString ==
    Call("single_quoted_string",
         single_quoted_string(result.text, result.position))

CallValue == Call("value", value(result.text, result.position))

CallList == Call("list", list(result.text, result.position))

CallObject == Call("object", object(result.text, result.position))

CallKeyValuePair ==
    Call("key_value_pair", key_value_pair(result.text, result.position))

CallKeyValuePairs ==
    Call("key_value_pairs", key_value_pairs(result.text, result.position))

CallParseOptionString ==
    /\ rule = "none"
    /\ Call("parse_option_string", parse_option_string(result.text))

Next ==
    \/ CallSkipWhiteSpace
    \/ CallLiteral
    \/ CallIdentifier
    \/ CallSingleQuotedString
    \/ CallValue
    \/ CallList
    \/ CallObject
    \/ CallKeyValuePair
    \/ CallKeyValuePairs
    \/ CallParseOptionString

Spec == Init /\ [][Next]_vars

\* ------------------------------------------------------------------ claims
Last(t) == t[Len(t)]
AllWhite(t) == \A i \in 1..Len(t) : is_whitespace(t[i])
IsSuffix(t, whole) ==
    /\ Len(t) <= Len(whole)
    /\ SubSeq(whole, Len(whole) - Len(t) + 1, Len(whole)) = t
IsIdentChar(c) == is_alphanumeric(c) \/ c \in {"-", "_"}
WellFormedIdentifier(t) ==
    /\ t # <<>>
    /\ is_alphabetic(t[1])
    /\ \A i \in 2..Len(t) : IsIdentChar(t[i])
OffsetRules ==
    {"skip_white_space", "literal", "identifier", "single_quoted_string",
     "value", "list", "object", "key_value_pair", "key_value_pairs"}

\* C1: for every input written after the pairs grammar (dangling separators in
\* lists, objects and at the top level, whitespace around the tokens),
\* parse_option_string returns Ok, the pairs of the input in source order, and
\* as remaining text exactly what follows the last construct.
C1_GrammarInputsParse ==
    (rule = "parse_option_string" /\ origin.kind = "pairs") =>
        /\ result.ok
        /\ result.out = origin.tree
        /\ result.text = origin.ending

\* C2: on an input that is a well-formed identifier of n bytes with no `=`
\* after it, parse_option_string fails with ExpectedLiteralNotFound for "=" at
\* the offset right after the whole identifier, and identifier returns the
\* whole maximal run of identifier code points.
C2_IdentifierConsumesWholeRun ==
    /\ (rule = "parse_option_string" /\ WellFormedIdentifier(text)) =>
           result = Err("ExpectedLiteralNotFound", str_len(text), <<"=">>)
    /\ (rule = "identifier" /\ WellFormedIdentifier(text)) =>
           result = Ok(<<>>, position + str_len(text), text)

\* C3: value tries single_quoted_string, list and object from the same cursor;
\* on success the variant is fixed by the first code point, and when all three
\* fail the result is NoValueFound at exactly the offset value was called
\* with, whatever the alternatives reported (a pair "k=" followed at once by
\* no value, such as "k=@", fails at offset 2).
C3_ValueOrderedTry ==
    /\ rule = "value" =>
         LET s == single_quoted_string(text, position)
             l == list(text, position)
             o == object(text, position)
         IN  /\ result.ok <=> (s.ok \/ l.ok \/ o.ok)
             /\ ~result.ok => result = Err("NoValueFound", position, <<>>)
             /\ result.ok =>
                  /\ text # <<>>
                  /\ text[1] \in {"'", "[", "("}
                  /\ text[1] = "'" =>
                       result = Ok(s.text, s.position, StringValue(s.out))
                  /\ text[1] = "[" =>
                       result = Ok(l.text, l.position, ListValue(l.out))
                  /\ text[1] = "(" =>
                       result = Ok(o.text, o.position, ObjectValue(o.out))
    /\ (rule \in {"parse_option_string", "key_value_pair"}
        /\ position = 0 /\ Len(text) >= 3
        /\ SubSeq(text, 1, 2) = <<"k", "=">>
        /\ ~is_whitespace(text[3])
        /\ ~value(SubSeq(text, 3, Len(text)), 2).ok) =>
           result = Err("NoValueFound", 2, <<>>)

\* A value that fails deep inside a list, away from offset 0.
C3_Witness ==
    /\ rule = "value"
    /\ ~result.ok
    /\ position > 0
    /\ list(text, position).kind = "NoValueFound"
    /\ list(text, position).position > position

\* C4: once key_value_pairs has parsed its first pair it never fails.  With no
\* `;` next it returns the cursor before the whitespace; with a `;` and no
\* valid pair after it, the cursor right after that `;`.  One `;` added after
\* the last pair leaves the pair list as it is, and the rule fails only when
\* the first pair of a non-empty text is rejected.
C4_PairsNeverFailAfterFirst ==
    rule = "key_value_pairs" =>
      LET w == skip_white_space(text, position)
          first == key_value_pair(w.text, w.position)
          consumed == SubSeq(text, 1, Len(text) - Len(result.text))
          rest == skip_white_space(result.text, 0).text
      IN  /\ (w.text # <<>> /\ first.ok) =>
                /\ result.ok
                /\ result.out # <<>>
                /\ result.out[1] = first.out
          /\ w.text = <<>> => result = Ok(<<>>, w.position, <<>>)
          /\ ~result.ok => (w.text # <<>> /\ ~first.ok /\ result = first)
          /\ (result.ok /\ result.out # <<>>) =>
                /\ IsSuffix(result.text, text)
                /\ \/ /\ Last(consumed) \in {"'", "]", ")"}
                      /\ ~starts_with(rest, <<";">>)
                   \/ /\ Last(consumed) = ";"
                      /\ ~key_value_pair(rest, 0).ok
                /\ (Last(consumed) # ";" /\ AllWhite(result.text)) =>
                      LET again == key_value_pairs(
                                       consumed \o <<";">> \o result.text,
                                       position)
                      IN  again.ok /\ again.out = result.out

\* Two pairs, a dangling separator, and text left after it.
C4_Witness ==
    /\ rule = "key_value_pairs"
    /\ result.ok
    /\ Len(result.out) = 2
    /\ result.text # <<>>
    /\ text[Len(text) - Len(result.text)] = ";"

\* C5: on ' body ' where body is made of ordinary code points and the escapes
\* \' and \\, single_quoted_string succeeds, returns what follows the closing
\* quote, and the content is body with each escape replaced by the code point
\* it stands for; a backslash before any other code point fails with
\* UnknownEscapedSymbol carrying that code point.
C5_StringDecoding ==
    (rule = "single_quoted_string" /\ origin.kind = "string") =>
        /\ (origin.ending # <<>> /\ Head(origin.ending) = "'") =>
              /\ result.ok
              /\ result.out = origin.tree
              /\ result.text = Tail(origin.ending)
        /\ (Len(origin.ending) = 2 /\ Head(origin.ending) = "\\") =>
              /\ ~result.ok
              /\ result.kind = "UnknownEscapedSymbol"
              /\ result.info = <<origin.ending[2]>>

\* A content that holds both escaped code points, and text after the quote.
C5_Witness ==
    /\ rule = "single_quoted_string"
    /\ origin.kind = "string"
    /\ result.ok
    /\ result.out = <<"'", "\\">>
    /\ result.text # <<>>

\* C6: whenever a rule succeeds, the offset it returns is the offset it was
\* given plus the number of bytes by which the remaining text got shorter, and
\* it is not smaller than the offset it was given.
C6_OffsetTracksConsumedBytes ==
    (rule \in OffsetRules /\ result.ok) =>
        /\ result.position = position + (str_len(text) - str_len(result.text))
        /\ result.position >= position

\* C7: a `;` in a list that is followed, after optional whitespace, by no
\* value does not make list fail: with `]` next, list succeeds with the
\* values collected so far.
C7_ListDanglingSeparator ==
    (/\ rule = "list"
     /\ origin.kind = "value"
     /\ origin.tree[1] = "ListValue"
     /\ origin.tree[2] # <<>>
     /\ origin.trailing) =>
        /\ result.ok
        /\ result.out = origin.tree[2]
        /\ result.text = <<>>

\* C8: identifier called at offset p on a non-empty text whose first code
\* point is not alphabetic fails with IdentifiersFirstCharacterNotAlphabetic
\* carrying p (so does parse_option_string on whitespace followed by such a
\* code point, with p the offset after the whitespace); on the empty text it
\* fails with PrematureEndOfText carrying p.
C8_IdentifierErrorOffset ==
    /\ (rule = "identifier" /\ text # <<>> /\ ~is_alphabetic(text[1])) =>
           result = Err("IdentifiersFirstCharacterNotAlphabetic", position, <<>>)
    /\ (rule = "identifier" /\ text = <<>>) =>
           result = Err("PrematureEndOfText", position, <<>>)
    /\ (rule = "parse_option_string" /\ ~AllWhite(text)) =>
         LET w == skip_white_space(text, 0)
         IN  ~is_alphabetic(w.text[1]) =>
               result = Err("IdentifiersFirstCharacterNotAlphabetic",
                            w.position, <<>>)

\* C9: when single_quoted_string reaches the end of the input before a closing
\* quote, it fails with PrematureEndOfText at the offset of the last code
\* point it examined in the body, also when that code point is the second one
\* of an escape pair.
C9_PrematureEndOffset ==
    (/\ rule = "single_quoted_string"
     /\ origin.kind = "string"
     /\ \/ origin.ending = <<>> /\ origin.tree # <<>>
        \/ origin.ending = <<"\\">>) =>
        result = Err("PrematureEndOfText",
                     position + str_len(text) - len_utf8(Last(text)), <<>>)

\* C10: parse_option_string fails only when the first pair of a text that is
\* not empty after whitespace is rejected, and then with
\* IdentifiersFirstCharacterNotAlphabetic, ExpectedLiteralNotFound("=") or
\* NoValueFound; PrematureEndOfText and UnknownEscapedSymbol never reach the
\* caller, and whatever is wrong after the first pair is left in the
\* remaining text of an Ok result.
C10_OnlyFirstPairErrors ==
    rule = "parse_option_string" =>
      LET w == skip_white_space(text, 0)
          first == key_value_pair(w.text, w.position)
      IN  /\ ~result.ok =>
                /\ w.text # <<>>
                /\ ~first.ok
                /\ result.kind \in {"IdentifiersFirstCharacterNotAlphabetic",
                                    "ExpectedLiteralNotFound", "NoValueFound"}
                /\ result.kind = "ExpectedLiteralNotFound" =>
                      result.info = <<"=">>
          /\ (w.text = <<>> \/ first.ok) =>
                /\ result.ok
                /\ IsSuffix(result.text, text)
                /\ w.text # <<>> => result.out[1] = first.out

\* An unknown escape inside the string of the first pair, reported as
\* NoValueFound.
C10_Witness ==
    /\ rule = "parse_option_string"
    /\ result.kind = "NoValueFound"
    /\ Len(text) > 3
    /\ single_quoted_string(SubSeq(text, 3, Len(text)), 2).kind
          = "UnknownEscapedSymbol"

====
